---- MODULE Spec2Model ----
(***************************************************************************)
(* Model of the finance ingestion pipeline:                                *)
(*   dags/finance_pipeline_dag.py   the task graph and the four callables  *)
(*   src/load/snowflake_loader.py   SnowflakeLoader                        *)
(* One graph run of finance_pipeline_dag is modelled.  The warehouse       *)
(* (tables of schema RAW and COBRA, METADATA.INGEST_RUNS,                  *)
(* METADATA.WATERMARKS) is shared state; every task has its own loader.    *)
(* Timestamps (run_timestamp, updated_at, ingested_at) are left out.       *)
(***************************************************************************)
EXTENDS Integers, Sequences, FiniteSets, Bags, TLC

(* ------------------------------ bounds -------------------------------- *)
\* calendar dates are 1..MaxDate
MaxDate == 2
\* a batch (DataFrame) has at most MaxLen rows
MaxLen == 2
\* at most MaxFaults warehouse or XCom operations fail while one branch is followed
MaxFaults == 2
\* at most GraphMaxFaults warehouse or XCom operations fail in a run of the whole graph
GraphMaxFaults == 0
\* a batch has at most GraphMaxLen rows in a run of the whole graph
GraphMaxLen == 1
\* the current date (datetime.now().date()) of the run
Today == 9

(* ------------------------- program constants -------------------------- *)
\* default_args['retries']
retries == 2
\* days_old > 7 of verify_data_quality
FreshnessDays == 7

(* ------------------------------ the graph ----------------------------- *)
ExtractNodes ==
  {"extract_yahoo_prices", "extract_yahoo_company_info", "extract_yahoo_benchmark_series"}

\* the nodes whose callable creates a SnowflakeLoader
LoaderNodes == ExtractNodes \cup {"verify_data_quality"}

EmptyNodes == {"start", "end"}

Nodes == EmptyNodes \cup LoaderNodes \cup {"transform_dbt"}

\* Upstream with verify wired to the first extraction task only
Upstream_NoFanIn(n) ==
  CASE n = "start" -> {}
    [] n \in ExtractNodes -> {"start"}
    [] n = "verify_data_quality" -> {"extract_yahoo_prices"}
    [] n = "transform_dbt" -> {"verify_data_quality"}
    [] n = "end" -> {"transform_dbt"}

\* start >> [extract_prices, extract_company, extract_benchmarks] >> verify >> transform_dbt >> end
Upstream(n) ==
  CASE n = "start" -> {}
    [] n \in ExtractNodes -> {"start"}
    [] n = "verify_data_quality" -> ExtractNodes
    [] n = "transform_dbt" -> {"verify_data_quality"}
    [] n = "end" -> {"transform_dbt"}

\* dataset_name= of the load_to_raw call of each extraction callable
DatasetOf(n) ==
  CASE n = "extract_yahoo_prices" -> "stock_prices"
    [] n = "extract_yahoo_company_info" -> "company_info"
    [] n = "extract_yahoo_benchmark_series" -> "benchmark_series"

\* table_name= of the load_to_raw call of each extraction callable
TableOf(n) ==
  CASE n = "extract_yahoo_prices" -> "STOCK_PRICES_DAILY"
    [] n = "extract_yahoo_company_info" -> "COMPANY_INFO"
    [] n = "extract_yahoo_benchmark_series" -> "BENCHMARK_SERIES_DAILY"

Datasets == {DatasetOf(n) : n \in ExtractNodes}
TableNames == {TableOf(n) : n \in ExtractNodes}

\* HasWatermarkBlock with the block in the company_info callable as well
HasWatermarkBlock_All(n) == TRUE

\* the callables with an "if not df.empty: ... update_watermark" block
HasWatermarkBlock(n) == n \in {"extract_yahoo_prices", "extract_yahoo_benchmark_series"}

(* ------------------------------ batches ------------------------------- *)
Dates == 1..MaxDate
\* company reference rows carry no date column
NoDate == 0

SeqsUpTo(S, k) == UNION {[1..m -> S] : m \in 0..k}

\* what the extractor of node n may return: any DataFrame of at most k rows,
\* in any order of dates; a row is modelled by its date
Batches(n, k) ==
  IF n = "extract_yahoo_company_info" THEN SeqsUpTo({NoDate}, k)
  ELSE SeqsUpTo(Dates, k)

Range(s) == {s[i] : i \in DOMAIN s}

\* the maximum of an empty column (pandas answers NaN)
NaN == -1

\* df['date'].max()
MaxDateOf(d) ==
  IF d = <<>> THEN NaN ELSE CHOOSE m \in Range(d) : \A x \in Range(d) : x <= m

\* str(max_date)
Str(x) == <<"str", x>>

SeqToBag(s) == [r \in Range(s) |-> Cardinality({i \in DOMAIN s : s[i] = r})]

\* the first k rows of a sequence
Prefix(s, k) == [i \in 1..k |-> s[i]]

NoId == <<>>
NoBatch == <<>>
NoWrite == [kind |-> "none", num_rows |-> 0]
NoResult == [status |-> "none", records_loaded |-> 0, run_id |-> NoId]

VARIABLES
  status,      \* node -> state of its task instance
  tries,       \* node -> try_number: attempts started so far
  pc,          \* loader node -> position inside its callable
  df,          \* extraction node -> the extracted DataFrame
  conn,        \* loader node -> loader.conn: "none", "open" or "closed"
  sessions,    \* loader node -> sessions the task's loader has established
  run_id,      \* extraction node -> run_id of the load_to_raw in progress
  wp,          \* extraction node -> what write_pandas returned or raised
  result,      \* extraction node -> what load_to_raw returned
  exc,         \* loader node -> an exception is propagating out of the callable
  err,         \* loader node -> str(e) of that exception, "None" without one
  raw,         \* table name -> rows of RAW.<table> (a bag)
  cobra,       \* table name -> rows of COBRA.<table> (a bag)
  ledger,      \* METADATA.INGEST_RUNS (a bag of rows)
  watermarks,  \* METADATA.WATERMARKS (a set of rows)
  whCalls,     \* history of the write_pandas calls made: what each was given and answered
  logCalls,    \* history of the _log_ingest_run calls made: the row, and whether it was stored
  wmCalls,     \* history of the update_watermark calls made, and whether the value was stored
  warned,      \* verify_data_quality logged the staleness warning
  budget,      \* warehouse and XCom operations that may still fail
  scope,       \* the nodes the scheduler runs, and the batches their extractors may give
  main         \* run_extraction.main: the job it is at, "completed" or "raised"

vars == <<status, tries, pc, df, conn, sessions, run_id, wp, result, exc, err, raw,
          cobra, ledger, watermarks, whCalls, logCalls, wmCalls, warned, budget, scope, main>>

nodeVars == <<status, tries>>
localVars == <<df, run_id, wp, result>>
storeVars == <<raw, cobra, ledger, watermarks, whCalls, logCalls, wmCalls>>

(* ------------------------------- Init --------------------------------- *)
\* a row of a warehouse table: its date and the run that loaded it
Row(d, id) == [date |-> d, source_run_id |-> id]

\* rows schema COBRA may hold when the gate reads it.  No task of the graph
\* writes COBRA (the loader writes schema RAW), so its contents are an input
\* of the run: they are fixed when the gate first reads them, Unread before.
PriorId == <<"prior">>
Unread == <<"unread">>
CobraContents(t) ==
  IF t = "STOCK_PRICES_DAILY"
  THEN {EmptyBag} \cup {SetToBag({Row(d, PriorId)}) : d \in Dates}
  ELSE {EmptyBag, SetToBag({Row(NoDate, PriorId)})}
CobraStates ==
  {c \in [TableNames -> UNION {CobraContents(t) : t \in TableNames}] :
     \A t \in TableNames : c[t] \in CobraContents(t)}

\* the jobs main() of run_extraction calls, in its order; a job is named by
\* the node of the graph that loads the same dataset
RunnerJobs ==
  <<"extract_yahoo_prices", "extract_yahoo_company_info", "extract_yahoo_benchmark_series">>

\* the state a graph run starts from: the nodes of done have succeeded, faults
\* warehouse or XCom operations may fail, sc is what the scheduler runs
InitWith(done, faults, sc) ==
  /\ status = [n \in Nodes |-> IF n \in done THEN "succeeded" ELSE "pending"]
  /\ tries = [n \in Nodes |-> IF n \in done THEN 1 ELSE 0]
  /\ pc = [n \in LoaderNodes |-> "idle"]
  /\ df = [n \in ExtractNodes |-> NoBatch]
  /\ conn = [n \in LoaderNodes |-> "none"]
  /\ sessions = [n \in LoaderNodes |-> 0]
  /\ run_id = [n \in ExtractNodes |-> NoId]
  /\ wp = [n \in ExtractNodes |-> NoWrite]
  /\ result = [n \in ExtractNodes |-> NoResult]
  /\ exc = [n \in LoaderNodes |-> FALSE]
  /\ err = [n \in LoaderNodes |-> "None"]
  /\ raw = [t \in TableNames |-> EmptyBag]
  /\ cobra = Unread
  /\ ledger = EmptyBag
  /\ watermarks = {}
  /\ whCalls = {}
  /\ logCalls = {}
  /\ wmCalls = {}
  /\ warned = FALSE
  /\ budget = faults
  /\ scope = sc
  /\ main = RunnerJobs[1]

Init ==
  InitWith({}, GraphMaxFaults,
           [nodes |-> Nodes,
            batches |-> [n \in ExtractNodes |-> Batches(n, GraphMaxLen)]])

\* the nodes that have succeeded when node n becomes eligible
Before(n) ==
  IF n = "verify_data_quality" THEN ExtractNodes \cup {"start"} ELSE {"start"}

\* one task that creates a loader followed alone, everything before it
\* having succeeded
TaskInit ==
  \E n \in LoaderNodes :
    InitWith(Before(n), MaxFaults,
             [nodes |-> {n},
              batches |-> [m \in ExtractNodes |-> Batches(m, MaxLen)]])

\* the batch sizes of the three branches in the end-to-end scenario
ScenarioSizes == <<12, 5, 0>>

\* a batch of k rows: dates in turn, or no date for company_info
ScenarioBatch(n, k) ==
  [i \in 1..k |-> IF n = "extract_yahoo_company_info" THEN NoDate
                  ELSE ((i - 1) % MaxDate) + 1]

\* the end-to-end scenario: the three sizes given to the three branches in
\* any order, the warehouse answering every call
ScenarioInit ==
  \E f \in [ExtractNodes -> DOMAIN ScenarioSizes] :
    /\ \A a, b \in ExtractNodes : f[a] = f[b] => a = b
    /\ InitWith({}, GraphMaxFaults,
                [nodes |-> Nodes,
                 batches |-> [n \in ExtractNodes |->
                                {ScenarioBatch(n, ScenarioSizes[f[n]])}]])

(* --------------------------- the orchestrator ------------------------- *)
\* DepsMet as trigger rule one_success
DepsMet_OneSuccess(n) ==
  Upstream(n) = {} \/ \E u \in Upstream(n) : status[u] = "succeeded"

\* trigger rule all_success: every upstream task instance succeeded
DepsMet(n) == \A u \in Upstream(n) : status[u] = "succeeded"

\* UpstreamBroken with a failed sibling extraction task breaking a branch too
UpstreamBroken_FailFast(n) ==
  \E u \in Upstream(n) \cup (IF n \in ExtractNodes THEN ExtractNodes \ {n} ELSE {}) :
    status[u] \in {"failed", "upstream_failed"}

\* UpstreamBroken that looks at failed upstream tasks only
UpstreamBroken_FailedOnly(n) == \E u \in Upstream(n) : status[u] = "failed"

\* an upstream task instance failed or was itself marked upstream_failed
UpstreamBroken(n) == \E u \in Upstream(n) : status[u] \in {"failed", "upstream_failed"}

\* StateAfterFailure with one retry less
StateAfterFailure_OneRetry(n) == IF tries[n] < retries THEN "up_for_retry" ELSE "failed"

\* StateAfterFailure that leaves a task out of retries in the running state
StateAfterFailure_Stuck(n) == IF tries[n] <= retries THEN "up_for_retry" ELSE "running"

\* the state a task instance gets when its attempt raised: retried while
\* try_number <= retries, failed after that
StateAfterFailure(n) == IF tries[n] <= retries THEN "up_for_retry" ELSE "failed"

Finish(n, raised) ==
  status' = [status EXCEPT ![n] = IF raised THEN StateAfterFailure(n) ELSE "succeeded"]

CanFail == budget > 0
Fail == budget' = budget - 1

\* an EmptyOperator (start, end) has nothing to run
RunEmpty(n) ==
  /\ n \in EmptyNodes
  /\ status[n] = "pending"
  /\ DepsMet(n)
  /\ status' = [status EXCEPT ![n] = "succeeded"]
  /\ tries' = [tries EXCEPT ![n] = @ + 1]
  /\ UNCHANGED <<pc, conn, sessions, exc, err, localVars, storeVars, warned, budget, scope, main>>

\* the scheduler starts an attempt of a task
Schedule(n) ==
  /\ n \in scope.nodes \ EmptyNodes
  /\ status[n] \in {"pending", "up_for_retry"}
  /\ DepsMet(n)
  /\ status' = [status EXCEPT ![n] = "running"]
  /\ tries' = [tries EXCEPT ![n] = @ + 1]
  /\ pc' = IF n \in ExtractNodes THEN [pc EXCEPT ![n] = "extract"]
           ELSE IF n = "verify_data_quality" THEN [pc EXCEPT ![n] = "gate"]
           ELSE pc
  /\ UNCHANGED <<conn, sessions, exc, err, localVars, storeVars, warned, budget, scope, main>>

MarkUpstreamFailed(n) ==
  /\ status[n] = "pending"
  /\ UpstreamBroken(n)
  /\ status' = [status EXCEPT ![n] = "upstream_failed"]
  /\ UNCHANGED <<tries, pc, conn, sessions, exc, err, localVars, storeVars, warned, budget, scope, main>>

(* ----------------------------- the loader ----------------------------- *)
\* generate_run_id(): a token no other load attempt gets
generate_run_id(n) == <<n, tries[n]>>

\* df.empty
IsEmpty(d) == Len(d) = 0

\* StampRows without the source_run_id assignment
StampRows_Unstamped(d, id) == [i \in DOMAIN d |-> Row(d[i], NoId)]

\* df = df.copy(); df['source_run_id'] = run_id: the rows handed to write_pandas
StampRows(d, id) == [i \in DOMAIN d |-> Row(d[i], id)]

\* a row of METADATA.INGEST_RUNS
IngestRun(id, n, loaded, st, error_message) ==
  [run_id |-> id, dataset_name |-> DatasetOf(n), table_name |-> TableOf(n),
   records_loaded |-> loaded, status |-> st, error_message |-> error_message]

\* str(e) of the exception load_to_raw caught
ErrorText(w) ==
  IF w.kind = "unsuccessful" THEN "Load failed: output" ELSE "write_pandas raised"

\* RowToLog with the success branch logging 0 rows instead of num_rows
RowToLog_NoCount(n) ==
  IF wp[n].kind = "success"
  THEN IngestRun(run_id[n], n, 0, "completed", "None")
  ELSE IngestRun(run_id[n], n, 0, "failed", ErrorText(wp[n]))

\* RowToLog with the except branch dropping error_message=str(e)
RowToLog_NoError(n) ==
  IF wp[n].kind = "success"
  THEN IngestRun(run_id[n], n, wp[n].num_rows, "completed", "None")
  ELSE IngestRun(run_id[n], n, 0, "failed", "None")

\* RowToLog with the except branch logging status='completed'
RowToLog_AlwaysCompleted(n) ==
  IF wp[n].kind = "success"
  THEN IngestRun(run_id[n], n, wp[n].num_rows, "completed", "None")
  ELSE IngestRun(run_id[n], n, 0, "completed", ErrorText(wp[n]))

\* RowToLog with the except branch logging the rows write_pandas reported
RowToLog_PartialCount(n) ==
  IF wp[n].kind = "success"
  THEN IngestRun(run_id[n], n, wp[n].num_rows, "completed", "None")
  ELSE IngestRun(run_id[n], n, wp[n].num_rows, "failed", ErrorText(wp[n]))

\* the _log_ingest_run call load_to_raw makes for what write_pandas answered:
\* the success branch logs completed with num_rows, the except branch failed with 0
RowToLog(n) ==
  IF wp[n].kind = "success"
  THEN IngestRun(run_id[n], n, wp[n].num_rows, "completed", "None")
  ELSE IngestRun(run_id[n], n, 0, "failed", ErrorText(wp[n]))

\* what load_to_raw returns from its success branch
CompletedResult(n) ==
  [status |-> "completed", records_loaded |-> wp[n].num_rows, run_id |-> run_id[n]]

\* what load_to_raw returns for an empty DataFrame
SkippedResult == [status |-> "skipped", records_loaded |-> 0, run_id |-> NoId]

\* InsertRun as an upsert keyed by dataset_name
InsertRun_Upsert(L, row) ==
  LET S == {r \in BagToSet(L) : r.dataset_name # row.dataset_name}
  IN [r \in S |-> L[r]] (+) SetToBag({row})

\* INSERT INTO METADATA.INGEST_RUNS through self.conn
InsertRun(L, row) == L (+) SetToBag({row})

\* MergeWatermark whose UPDATE is not restricted to the matched dataset_name
MergeWatermark_NoKey(W, ds, v) ==
  {[w EXCEPT !.watermark_value = v] : w \in W}
    \cup (IF \E w \in W : w.dataset_name = ds
          THEN {}
          ELSE {[dataset_name |-> ds, watermark_value |-> v]})

\* MERGE INTO METADATA.WATERMARKS ... ON w.dataset_name = s.dataset_name
MergeWatermark(W, ds, v) ==
  IF \E w \in W : w.dataset_name = ds
  THEN {IF w.dataset_name = ds THEN [w EXCEPT !.watermark_value = v] ELSE w : w \in W}
  ELSE W \cup {[dataset_name |-> ds, watermark_value |-> v]}

\* what get_watermark returns for no row, and for any exception it swallows
None == <<>>

\* get_watermark(dataset_name) on a loader whose conn is c, the query answering:
\* self.conn.cursor() raises unless the session is open, and the except
\* block returns None
get_watermark(c, W, ds) ==
  IF c # "open" THEN None
  ELSE IF \E w \in W : w.dataset_name = ds
       THEN (CHOOSE w \in W : w.dataset_name = ds).watermark_value
       ELSE None

\* ShouldAdvance without the "if not df.empty:" guard
ShouldAdvance_NoEmptyCheck(n) == HasWatermarkBlock(n)

\* the "if not df.empty:" guard of the watermark block
ShouldAdvance(n) == HasWatermarkBlock(n) /\ ~IsEmpty(df[n])

\* WatermarkValue taking the date of the last row instead of the maximum
WatermarkValue_LastRow(d) == Str(IF d = <<>> THEN NaN ELSE d[Len(d)])

\* str(df['date'].max())
WatermarkValue(d) == Str(MaxDateOf(d))

\* AfterConnect with the ledger written before the warehouse write
AfterConnect_LogFirst == "log"

\* where load_to_raw goes once it holds a connection and a run_id
AfterConnect == "write"

(* ----------------------- the extraction callables --------------------- *)
\* config = load_ticker_config(); df = extract_...(...); loader = SnowflakeLoader(...)
Extract(n) ==
  /\ n \in ExtractNodes
  /\ status[n] = "running"
  /\ pc[n] = "extract"
  /\ \/ /\ \E b \in scope.batches[n] : df' = [df EXCEPT ![n] = b]
        /\ pc' = [pc EXCEPT ![n] = "load"]
        /\ conn' = [conn EXCEPT ![n] = "none"]
        /\ sessions' = [sessions EXCEPT ![n] = 0]
        /\ UNCHANGED status
     \/ \* the config read or the download raises: no loader was created
        /\ Finish(n, TRUE)
        /\ pc' = [pc EXCEPT ![n] = "idle"]
        /\ UNCHANGED <<df, conn, sessions>>
  /\ UNCHANGED <<tries, exc, err, run_id, wp, result, storeVars, warned, budget, scope, main>>

\* NeedsConnect that connects on every call
NeedsConnect_Always(c) == TRUE

\* _get_connection connects unless "self.conn and not self.conn.is_closed()"
NeedsConnect(c) == c \in {"none", "closed"}

\* the sessions one _get_connection call establishes on a loader whose conn is c
Connects(c) == IF NeedsConnect(c) THEN 1 ELSE 0

\* load_to_raw up to the write: the empty check, _get_connection, generate_run_id
LoadToRaw(n) ==
  /\ n \in ExtractNodes
  /\ pc[n] = "load"
  /\ IF IsEmpty(df[n])
     THEN /\ result' = [result EXCEPT ![n] = SkippedResult]
          /\ pc' = [pc EXCEPT ![n] = "wm"]
          /\ UNCHANGED <<conn, sessions, run_id, exc, err, budget>>
     ELSE \/ /\ conn' = [conn EXCEPT ![n] = "open"]
             /\ sessions' = [sessions EXCEPT ![n] = @ + Connects(conn[n])]
             /\ run_id' = [run_id EXCEPT ![n] = generate_run_id(n)]
             /\ pc' = [pc EXCEPT ![n] = AfterConnect]
             /\ UNCHANGED <<result, exc, err, budget>>
          \/ \* snowflake.connector.connect raises, outside the try block
             /\ NeedsConnect(conn[n])
             /\ CanFail /\ Fail
             /\ exc' = [exc EXCEPT ![n] = TRUE]
             /\ err' = [err EXCEPT ![n] = "connect failed"]
             /\ pc' = [pc EXCEPT ![n] = "close"]
             /\ UNCHANGED <<conn, sessions, run_id, result>>
  /\ UNCHANGED <<nodeVars, df, wp, storeVars, warned, scope, main>>

\* AppendRows as write_pandas(..., overwrite=True) would do it
AppendRows_Overwrite(T, rows) == SeqToBag(rows)

\* what write_pandas(..., overwrite=False) does to the rows T of the table
AppendRows(T, rows) == T (+) SeqToBag(rows)

\* write_pandas(conn, df, table_name, schema='RAW', overwrite=False)
WritePandas(n) ==
  /\ n \in ExtractNodes
  /\ pc[n] = "write"
  /\ LET rows == StampRows(df[n], run_id[n])
         call(k, m) == [run_id |-> run_id[n], table_name |-> TableOf(n),
                        offered |-> Len(rows), kind |-> k, num_rows |-> m]
     IN \/ \* success: every row was appended
           /\ raw' = [raw EXCEPT ![TableOf(n)] = AppendRows(@, rows)]
           /\ wp' = [wp EXCEPT ![n] = [kind |-> "success", num_rows |-> Len(rows)]]
           /\ whCalls' = whCalls \cup {call("success", Len(rows))}
           /\ UNCHANGED budget
        \/ \* success = False: some chunk was not loaded
           /\ CanFail /\ Fail
           /\ \E k \in 0..(Len(rows) - 1) :
                /\ raw' = [raw EXCEPT ![TableOf(n)] = AppendRows(@, Prefix(rows, k))]
                /\ wp' = [wp EXCEPT ![n] = [kind |-> "unsuccessful", num_rows |-> k]]
                /\ whCalls' = whCalls \cup {call("unsuccessful", k)}
        \/ \* the call raises
           /\ CanFail /\ Fail
           /\ wp' = [wp EXCEPT ![n] = [kind |-> "raised", num_rows |-> 0]]
           /\ whCalls' = whCalls \cup {call("raised", 0)}
           /\ UNCHANGED raw
  /\ pc' = [pc EXCEPT ![n] = "log"]
  /\ UNCHANGED <<nodeVars, df, conn, sessions, run_id, result, exc, err, cobra, ledger, watermarks,
                 logCalls, wmCalls, warned, scope, main>>

\* RaisedText with a failure of the ledger INSERT replacing the caught error
RaisedText_Masked(n, ok) == IF ok THEN ErrorText(wp[n]) ELSE "INSERT failed"

\* str(e) of what the bare raise of the except block re-raises: the exception
\* caught, whether or not _log_ingest_run stored its row (ok)
RaisedText(n, ok) == ErrorText(wp[n])

\* _log_ingest_run, then the return or the re-raise of load_to_raw
LogIngestRun(n) ==
  /\ n \in ExtractNodes
  /\ pc[n] = "log"
  /\ \E ok \in BOOLEAN :
       /\ IF ok
          THEN /\ ledger' = InsertRun(ledger, RowToLog(n))
               /\ UNCHANGED budget
          ELSE \* the INSERT raises: logged as a warning and swallowed
               /\ CanFail /\ Fail
               /\ UNCHANGED ledger
       /\ logCalls' = logCalls \cup {[row |-> RowToLog(n), stored |-> ok]}
       /\ IF wp[n].kind = "success"
          THEN /\ result' = [result EXCEPT ![n] = CompletedResult(n)]
               /\ pc' = [pc EXCEPT ![n] = "wm"]
               /\ UNCHANGED <<exc, err>>
          ELSE /\ exc' = [exc EXCEPT ![n] = TRUE]
               /\ err' = [err EXCEPT ![n] = RaisedText(n, ok)]
               /\ pc' = [pc EXCEPT ![n] = "close"]
               /\ UNCHANGED result
  /\ UNCHANGED <<nodeVars, df, conn, sessions, run_id, wp, raw, cobra, watermarks, whCalls,
                 wmCalls, warned, scope, main>>

\* the watermark block of the callable: update_watermark(dataset, str(max_date))
UpdateWatermark(n) ==
  /\ n \in ExtractNodes
  /\ pc[n] = "wm"
  /\ IF ShouldAdvance(n)
     THEN LET call(ok) == [dataset_name |-> DatasetOf(n), value |-> WatermarkValue(df[n]),
                           after |-> result[n], stored |-> ok]
          IN \/ /\ conn[n] = "open"
                /\ watermarks' =
                     MergeWatermark(watermarks, DatasetOf(n), WatermarkValue(df[n]))
                /\ wmCalls' = wmCalls \cup {call(TRUE)}
                /\ UNCHANGED budget
             \/ \* the MERGE raises: logged as a warning and swallowed
                /\ conn[n] = "open"
                /\ CanFail /\ Fail
                /\ wmCalls' = wmCalls \cup {call(FALSE)}
                /\ UNCHANGED watermarks
             \/ \* self.conn is None: cursor() raises, swallowed as well
                /\ conn[n] # "open"
                /\ wmCalls' = wmCalls \cup {call(FALSE)}
                /\ UNCHANGED <<watermarks, budget>>
     ELSE UNCHANGED <<watermarks, wmCalls, budget>>
  /\ pc' = [pc EXCEPT ![n] = "push"]
  /\ UNCHANGED <<nodeVars, localVars, conn, sessions, exc, err, raw, cobra, ledger, whCalls, logCalls,
                 warned, scope, main>>

\* context['task_instance'].xcom_push(key='records_loaded', ...)
XcomPush(n) ==
  /\ n \in ExtractNodes
  /\ pc[n] = "push"
  /\ \/ UNCHANGED <<exc, err, budget>>
     \/ /\ CanFail /\ Fail
        /\ exc' = [exc EXCEPT ![n] = TRUE]
        /\ err' = [err EXCEPT ![n] = "xcom_push raised"]
  /\ pc' = [pc EXCEPT ![n] = "close"]
  /\ UNCHANGED <<nodeVars, localVars, conn, sessions, storeVars, warned, scope, main>>

\* close that leaves the connection as it is
close_Noop(c) == c

\* loader.close() as the connection sees it
close(c) == IF c = "open" THEN "closed" ELSE c

\* finally: loader.close(), and the end of the attempt
Close(n) ==
  /\ n \in LoaderNodes
  /\ pc[n] = "close"
  /\ conn' = [conn EXCEPT ![n] = close(@)]
  /\ UNCHANGED sessions
  /\ Finish(n, exc[n])
  /\ exc' = [exc EXCEPT ![n] = FALSE]
  /\ err' = [err EXCEPT ![n] = "None"]
  /\ pc' = [pc EXCEPT ![n] = "idle"]
  /\ IF n \in ExtractNodes
     THEN /\ df' = [df EXCEPT ![n] = NoBatch]
          /\ run_id' = [run_id EXCEPT ![n] = NoId]
          /\ wp' = [wp EXCEPT ![n] = NoWrite]
          /\ result' = [result EXCEPT ![n] = NoResult]
     ELSE UNCHANGED localVars
  /\ UNCHANGED <<tries, storeVars, warned, budget, scope, main>>

(* --------------------------- the quality gate ------------------------- *)
\* the checks list of verify_data_quality, in its order
Checks == <<"STOCK_PRICES_DAILY", "COMPANY_INFO", "BENCHMARK_SERIES_DAILY">>

\* SELECT COUNT(*) FROM COBRA.<table>
Count(t) == BagCardinality(cobra[t])

\* SomeEmpty with the count checked for the first table only
SomeEmpty_FirstOnly == Count(Checks[1]) = 0

\* SomeEmpty with stale data raising as well
SomeEmpty_OrStale ==
  IF \E i \in DOMAIN Checks : Count(Checks[i]) = 0
  THEN TRUE
  ELSE \A r \in BagToSet(cobra["STOCK_PRICES_DAILY"]) : Today - r.date > FreshnessDays

\* some check finds count == 0: raise ValueError
SomeEmpty == \E i \in DOMAIN Checks : Count(Checks[i]) = 0

\* the execute_query calls the gate makes: the counts up to the first empty
\* table, or all of them and the MAX(date) query
QueriesMade ==
  IF \E i \in DOMAIN Checks : Count(Checks[i]) = 0
  THEN CHOOSE i \in DOMAIN Checks :
         /\ Count(Checks[i]) = 0
         /\ \A j \in 1..(i - 1) : Count(Checks[j]) > 0
  ELSE Len(Checks) + 1

\* SELECT MAX(date) FROM COBRA.STOCK_PRICES_DAILY
MaxStoredDate ==
  LET ds == {r.date : r \in BagToSet(cobra["STOCK_PRICES_DAILY"])}
  IN CHOOSE m \in ds : \A x \in ds : x <= m

\* days_old > 7
Stale == Today - MaxStoredDate > FreshnessDays

\* the body of verify_data_quality up to its finally
VerifyDataQuality ==
  /\ pc["verify_data_quality"] = "gate"
  /\ \/ \* the connection is established and every query answers
        /\ \E c \in CobraStates :
             /\ cobra \in {Unread, c}
             /\ cobra' = c
        /\ conn' = [conn EXCEPT !["verify_data_quality"] = "open"]
        /\ sessions' = [sessions EXCEPT !["verify_data_quality"] =
                          Connects("none") + (QueriesMade' - 1) * Connects("open")]
        /\ exc' = [exc EXCEPT !["verify_data_quality"] = SomeEmpty']
        /\ err' = [err EXCEPT !["verify_data_quality"] =
                     IF SomeEmpty' THEN "No data found" ELSE "None"]
        /\ warned' = IF SomeEmpty' THEN warned ELSE (warned \/ Stale')
        /\ UNCHANGED budget
     \/ \* _get_connection raises
        /\ CanFail /\ Fail
        /\ exc' = [exc EXCEPT !["verify_data_quality"] = TRUE]
        /\ err' = [err EXCEPT !["verify_data_quality"] = "connect failed"]
        /\ conn' = [conn EXCEPT !["verify_data_quality"] = "none"]
        /\ sessions' = [sessions EXCEPT !["verify_data_quality"] = 0]
        /\ UNCHANGED <<warned, cobra>>
     \/ \* the first query raises
        /\ CanFail /\ Fail
        /\ conn' = [conn EXCEPT !["verify_data_quality"] = "open"]
        /\ sessions' = [sessions EXCEPT !["verify_data_quality"] = Connects("none")]
        /\ exc' = [exc EXCEPT !["verify_data_quality"] = TRUE]
        /\ err' = [err EXCEPT !["verify_data_quality"] = "query failed"]
        /\ UNCHANGED <<warned, cobra>>
  /\ pc' = [pc EXCEPT !["verify_data_quality"] = "close"]
  /\ UNCHANGED <<nodeVars, localVars, raw, ledger, watermarks, whCalls, logCalls,
                 wmCalls, scope, main>>

(* ----------------------------- the transform -------------------------- *)
\* the bash command of transform_dbt (dbt run && dbt test): ok or error
TransformDbt ==
  /\ status["transform_dbt"] = "running"
  /\ \/ Finish("transform_dbt", FALSE)
     \/ Finish("transform_dbt", TRUE)
  /\ UNCHANGED <<tries, pc, conn, sessions, exc, err, localVars, storeVars, warned, budget, scope, main>>

(* ------------------------------ the system ---------------------------- *)
Next ==
  \/ \E n \in Nodes : RunEmpty(n) \/ Schedule(n) \/ MarkUpstreamFailed(n)
  \/ \E n \in ExtractNodes :
       Extract(n) \/ LoadToRaw(n) \/ WritePandas(n) \/ LogIngestRun(n)
         \/ UpdateWatermark(n) \/ XcomPush(n)
  \/ \E n \in LoaderNodes : Close(n)
  \/ VerifyDataQuality
  \/ TransformDbt

Spec == Init /\ [][Next]_vars

\* the graph run under a scheduler that keeps taking a step while one is
\* possible, every task attempt returning or raising
FairSpec == Spec /\ WF_vars(Next)

(* ------------------------ the standalone runner ----------------------- *)
\* the place of job n in main()
JobIndex(n) == CHOOSE i \in DOMAIN RunnerJobs : RunnerJobs[i] = n

\* AfterJob with an except block that goes on to the next job
AfterJob_Continue(n, raised) ==
  IF JobIndex(n) = Len(RunnerJobs) THEN "completed" ELSE RunnerJobs[JobIndex(n) + 1]

\* where main() is once job n has returned or raised: the try block goes on
\* to the next call, the except block logs and re-raises
AfterJob(n, raised) ==
  IF raised THEN "raised"
  ELSE IF JobIndex(n) = Len(RunnerJobs) THEN "completed"
  ELSE RunnerJobs[JobIndex(n) + 1]

\* main() calls job n: load_ticker_config, the download, "if df.empty: return",
\* loader = SnowflakeLoader(...)
RunnerExtract(n) ==
  /\ main = n
  /\ pc[n] = "idle"
  /\ tries' = [tries EXCEPT ![n] = @ + 1]
  /\ \/ \E b \in scope.batches[n] :
          IF IsEmpty(b)
          THEN \* "No ... data extracted!": the job returns, no loader was created
               /\ status' = [status EXCEPT ![n] = "succeeded"]
               /\ main' = AfterJob(n, FALSE)
               /\ UNCHANGED <<pc, df, conn, sessions, err>>
          ELSE /\ df' = [df EXCEPT ![n] = b]
               /\ pc' = [pc EXCEPT ![n] = "load"]
               /\ conn' = [conn EXCEPT ![n] = "none"]
               /\ sessions' = [sessions EXCEPT ![n] = 0]
               /\ status' = [status EXCEPT ![n] = "running"]
               /\ UNCHANGED <<main, err>>
     \/ \* the config read or the download raises
        /\ status' = [status EXCEPT ![n] = "failed"]
        /\ err' = [err EXCEPT ![n] = "extraction raised"]
        /\ main' = AfterJob(n, TRUE)
        /\ UNCHANGED <<pc, df, conn, sessions>>
  /\ UNCHANGED <<exc, run_id, wp, result, storeVars, warned, budget, scope>>

\* finally: loader.close(), and the job returns to main() or raises into it;
\* the runner pushes no result, so the finally follows the watermark block
RunnerClose(n) ==
  /\ main = n
  /\ pc[n] \in {"push", "close"}
  /\ conn' = [conn EXCEPT ![n] = close(@)]
  /\ status' = [status EXCEPT ![n] = IF exc[n] THEN "failed" ELSE "succeeded"]
  /\ main' = AfterJob(n, exc[n])
  /\ exc' = [exc EXCEPT ![n] = FALSE]
  /\ pc' = [pc EXCEPT ![n] = "idle"]
  /\ df' = [df EXCEPT ![n] = NoBatch]
  /\ run_id' = [run_id EXCEPT ![n] = NoId]
  /\ wp' = [wp EXCEPT ![n] = NoWrite]
  /\ result' = [result EXCEPT ![n] = NoResult]
  /\ UNCHANGED <<tries, sessions, err, storeVars, warned, budget, scope>>

\* python scripts/run_extraction.py with an empty warehouse
RunnerInit ==
  InitWith({}, MaxFaults,
           [nodes |-> {},
            batches |-> [m \in ExtractNodes |-> Batches(m, MaxLen)]])

RunnerNext ==
  \E n \in ExtractNodes :
    RunnerExtract(n) \/ LoadToRaw(n) \/ WritePandas(n) \/ LogIngestRun(n)
      \/ UpdateWatermark(n) \/ RunnerClose(n)

RunnerSpec == RunnerInit /\ [][RunnerNext]_vars

\* one task that creates a loader followed alone
TaskNext ==
  \/ \E n \in LoaderNodes : Schedule(n) \/ Close(n)
  \/ \E n \in ExtractNodes :
       Extract(n) \/ LoadToRaw(n) \/ WritePandas(n) \/ LogIngestRun(n)
         \/ UpdateWatermark(n) \/ XcomPush(n)
  \/ VerifyDataQuality

TaskSpec == TaskInit /\ [][TaskNext]_vars

\* the end-to-end scenario
ScenarioSpec == ScenarioInit /\ [][Next]_vars

(* ============================== the claims ============================ *)
\* the number of rows of METADATA.INGEST_RUNS with run_id = id
RunRows(id) ==
  LET S == {r \in BagToSet(ledger) : r.run_id = id}
  IN BagCardinality([r \in S |-> ledger[r]])

\* the rows of METADATA.INGEST_RUNS with run_id = id
RowsOfRun(id) == {r \in BagToSet(ledger) : r.run_id = id}

\* m is the largest date of batch d
IsMaxOf(m, d) == (\E i \in DOMAIN d : d[i] = m) /\ (\A i \in DOMAIN d : d[i] <= m)

\* the watermark values stored for dataset ds
StoredWatermarks(ds) == {w.watermark_value : w \in {x \in watermarks : x.dataset_name = ds}}

\* node n takes the step that leaves position p
Leaves(n, p) == pc[n] = p /\ pc'[n] # p

(* C1: for an empty batch, load_to_raw makes no warehouse write, appends    *)
(* exactly one Run Record with status skipped and rows_loaded = 0, leaves   *)
(* the watermark as it is and returns status skipped without an exception.  *)
C1_EmptyBatchLoad ==
  [][\A n \in ExtractNodes :
       (Leaves(n, "load") /\ Len(df[n]) = 0) =>
         /\ raw' = raw /\ whCalls' = whCalls /\ watermarks' = watermarks
         /\ result'[n].status = "skipped" /\ result'[n].records_loaded = 0
         /\ ~exc'[n]
         /\ BagCardinality(ledger') = BagCardinality(ledger) + 1
         /\ \E r \in BagToSet(ledger') :
              /\ CopiesIn(r, ledger') = CopiesIn(r, ledger) + 1
              /\ r.status = "skipped" /\ r.records_loaded = 0
              /\ r.dataset_name = DatasetOf(n)]_vars

\* what of C1 the code does: everything but the Run Record
C1_EmptyBatchNoRecord ==
  [][\A n \in ExtractNodes :
       (Leaves(n, "load") /\ Len(df[n]) = 0) =>
         /\ raw' = raw /\ whCalls' = whCalls /\ watermarks' = watermarks
         /\ result'[n].status = "skipped" /\ result'[n].records_loaded = 0
         /\ ~exc'[n]
         /\ ledger' = ledger]_vars

(* C2 as stated: a load of a non-empty batch that returned completed has    *)
(* added exactly one Run Record, with status completed and rows_loaded      *)
(* equal to the number of rows of the batch.                                *)
C2_Original ==
  \A n \in ExtractNodes :
    result[n].status = "completed" =>
      /\ RunRows(run_id[n]) = 1
      /\ \A r \in RowsOfRun(run_id[n]) :
           r.status = "completed" /\ r.records_loaded = Len(df[n])

(* C2 amended: a load that returned completed reports the number of rows of *)
(* its non-empty batch and has made one _log_ingest_run call for a          *)
(* completed record with that count; the ledger holds exactly one record    *)
(* of the attempt when that INSERT was stored and none when it raised.      *)
C2_CompletedLoad ==
  \A n \in ExtractNodes :
    result[n].status = "completed" =>
      /\ Len(df[n]) > 0
      /\ result[n].records_loaded = Len(df[n])
      /\ RunRows(run_id[n]) <= 1
      /\ \A r \in RowsOfRun(run_id[n]) :
           r.status = "completed" /\ r.records_loaded = Len(df[n])
      /\ \E c \in logCalls :
           /\ c.row.run_id = run_id[n]
           /\ c.row.status = "completed" /\ c.row.records_loaded = Len(df[n])
           /\ c.stored <=> RunRows(run_id[n]) = 1
      /\ \A c, d \in logCalls : c.row.run_id = d.row.run_id => c = d

C2_Witness ==
  \E n \in ExtractNodes :
    /\ result[n].status = "completed"
    /\ Len(df[n]) = 2
    /\ RunRows(run_id[n]) = 1

(* C3 as stated: for every dataset, after an extraction task whose load of  *)
(* a non-empty batch completed, the stored watermark of the dataset equals  *)
(* the maximum date of the batch.                                           *)
C3_Original ==
  \A n \in ExtractNodes :
    (pc[n] \in {"push", "close"} /\ result[n].status = "completed") =>
      \E m \in Range(df[n]) :
        IsMaxOf(m, df[n]) /\ StoredWatermarks(DatasetOf(n)) = {Str(m)}

(* C3 amended: for stock_prices and benchmark_series, after the watermark   *)
(* block of a task whose load completed, update_watermark was called with   *)
(* the text of the maximum date of the batch, and the stored watermark of   *)
(* the dataset equals it unless that MERGE raised; company_info has no      *)
(* watermark block and never has a stored watermark.                        *)
C3_WatermarkAfterLoad ==
  \A n \in ExtractNodes :
    (pc[n] \in {"push", "close"} /\ result[n].status = "completed") =>
      IF n = "extract_yahoo_company_info"
      THEN /\ StoredWatermarks("company_info") = {}
           /\ \A c \in wmCalls : c.dataset_name # "company_info"
      ELSE \E c \in wmCalls :
             /\ c.after.run_id = run_id[n]
             /\ c.dataset_name = DatasetOf(n)
             /\ \E m \in Range(df[n]) : IsMaxOf(m, df[n]) /\ c.value = Str(m)
             /\ c.stored => StoredWatermarks(DatasetOf(n)) = {c.value}

C3_Witness ==
  \E n \in ExtractNodes :
    /\ pc[n] = "push" /\ result[n].status = "completed"
    /\ Len(df[n]) = 2 /\ df[n][1] > df[n][2]
    /\ StoredWatermarks(DatasetOf(n)) = {Str(df[n][1])}

(* C4 as stated: a load whose warehouse write raises has produced exactly   *)
(* one failed Run Record carrying the error text when the exception reaches *)
(* the caller, and the exception is re-raised.                              *)
C4_Original ==
  \A n \in ExtractNodes :
    (pc[n] = "close" /\ wp[n].kind = "raised") =>
      /\ exc[n]
      /\ RunRows(run_id[n]) = 1
      /\ \A r \in RowsOfRun(run_id[n]) : r.status = "failed" /\ r.error_message # "None"

(* C4 amended: a load whose warehouse write raised or reported no success   *)
(* re-raises to the caller after one _log_ingest_run call for a failed      *)
(* record with rows_loaded = 0 and the error text; the ledger holds exactly *)
(* one record of the attempt when that INSERT was stored and none when it   *)
(* raised; no exception is in flight before the ledger call.                *)
C4_FailedLoad ==
  \A n \in ExtractNodes :
    /\ pc[n] = "log" => ~exc[n]
    /\ (pc[n] = "close" /\ wp[n].kind \in {"raised", "unsuccessful"}) =>
         /\ exc[n]
         /\ result[n] = NoResult
         /\ RunRows(run_id[n]) <= 1
         /\ \A r \in RowsOfRun(run_id[n]) :
              r.status = "failed" /\ r.records_loaded = 0 /\ r.error_message # "None"
         /\ \E c \in logCalls :
              /\ c.row.run_id = run_id[n]
              /\ c.row.status = "failed" /\ c.row.error_message # "None"
              /\ c.stored <=> RunRows(run_id[n]) = 1

C4_Witness ==
  \E n \in ExtractNodes :
    /\ pc[n] = "close" /\ wp[n].kind = "raised" /\ exc[n]
    /\ RunRows(run_id[n]) = 1

(* C5: every Run Record with status completed belongs to a write_pandas     *)
(* call that reported success; an attempt whose call raised, reported       *)
(* success = False or was never made has no completed record.               *)
C5_CompletedMeansWritten ==
  \A r \in BagToSet(ledger) :
    r.status = "completed" =>
      /\ \E c \in whCalls : c.run_id = r.run_id /\ c.kind = "success"
      /\ \A c \in whCalls : c.run_id = r.run_id => c.kind = "success"

C5_Witness ==
  /\ \E r \in BagToSet(ledger) : r.status = "completed"
  /\ \E c \in whCalls :
       /\ c.kind = "unsuccessful" /\ c.num_rows > 0
       /\ \E r \in BagToSet(ledger) : r.run_id = c.run_id /\ r.status = "failed"

\* the date a stored watermark text stands for
DateOf(v) == v[2]

(* C6: the stored watermark_value of a dataset never decreases, also when   *)
(* a later load's batch has an earlier maximum date than the stored value.  *)
C6_WatermarkNeverDecreases ==
  [][\A w \in watermarks :
       \E v \in watermarks' :
         /\ v.dataset_name = w.dataset_name
         /\ DateOf(v.watermark_value) >= DateOf(w.watermark_value)]_vars

\* what of C6 the code does: a stored watermark row is never removed
C6_WatermarkRowKept ==
  [][\A w \in watermarks :
       \E v \in watermarks' : v.dataset_name = w.dataset_name]_vars

(* C7: update_watermark is invoked only after a load that returned          *)
(* completed with rows_loaded > 0; the step after a skipped load, and every *)
(* step of an attempt whose load raised, leaves the watermarks as they are. *)
C7_AdvanceOnlyAfterCompleted ==
  [][/\ \A n \in ExtractNodes :
          (Leaves(n, "wm") /\ result[n].status # "completed") =>
            wmCalls' = wmCalls /\ watermarks' = watermarks
     /\ (wmCalls' # wmCalls \/ watermarks' # watermarks) =>
          \E n \in ExtractNodes :
            /\ pc[n] = "wm"
            /\ result[n].status = "completed" /\ result[n].records_loaded > 0
            /\ ~exc[n]]_vars

C7_Witness ==
  \E n \in ExtractNodes :
    /\ HasWatermarkBlock(n)
    /\ pc[n] = "push" /\ result[n].status = "skipped"
    /\ StoredWatermarks(DatasetOf(n)) # {}

(* C8 as stated: every Run Record belongs to a warehouse write attempt, and *)
(* update_watermark is called only when a completed Run Record of the       *)
(* attempt is in the ledger.                                                *)
C8_Original ==
  /\ \A r \in BagToSet(ledger) : \E w \in whCalls : w.run_id = r.run_id
  /\ \A c \in wmCalls :
       \E r \in BagToSet(ledger) : r.run_id = c.after.run_id /\ r.status = "completed"

(* C8 amended: _log_ingest_run is called only after the write_pandas call   *)
(* of the attempt, for a completed record exactly when that call reported   *)
(* success, and update_watermark is called only after write_pandas reported *)
(* success and _log_ingest_run was called for a completed record of the     *)
(* attempt, whether or not that INSERT was stored.                          *)
C8_StepOrder ==
  [][/\ \A c \in logCalls' \ logCalls :
          \E w \in whCalls :
            /\ w.run_id = c.row.run_id
            /\ c.row.status = "completed" <=> w.kind = "success"
     /\ \A c \in wmCalls' \ wmCalls :
          /\ \E w \in whCalls : w.run_id = c.after.run_id /\ w.kind = "success"
          /\ \E l \in logCalls :
               l.row.run_id = c.after.run_id /\ l.row.status = "completed"]_vars

C8_Witness ==
  \E c \in wmCalls :
    /\ c.stored
    /\ RunRows(c.after.run_id) = 0
    /\ \E l \in logCalls : l.row.run_id = c.after.run_id /\ ~l.stored

(* C9 as stated: no node is executed more than once in a graph run, and a   *)
(* node that has started had all its dependencies succeeded.                *)
C9_Original ==
  \A n \in Nodes :
    /\ tries[n] <= 1
    /\ tries[n] > 0 => \A u \in Upstream(n) : status[u] = "succeeded"

(* C9 amended: a node starts an attempt only when all of its dependencies   *)
(* have succeeded; it is attempted at most retries + 1 times (start and end *)
(* once), a second or third time only after the attempt before it raised;   *)
(* a node that succeeded or failed is not attempted again, and a node       *)
(* marked upstream_failed is never attempted.                               *)
C9_RunAfterDependencies ==
  /\ [](\A n \in Nodes :
          /\ tries[n] <= retries + 1
          /\ n \in EmptyNodes => tries[n] <= 1
          /\ tries[n] > 0 => \A u \in Upstream(n) : status[u] = "succeeded"
          /\ status[n] = "upstream_failed" => tries[n] = 0
          /\ status[n] = "failed" => tries[n] = retries + 1
          /\ status[n] \in {"running", "succeeded"} => tries[n] >= 1)
  /\ [][\A n \in Nodes :
          /\ tries'[n] # tries[n] =>
               /\ tries'[n] = tries[n] + 1
               /\ status[n] \in {"pending", "up_for_retry"}
               /\ \A u \in Upstream(n) : status[u] = "succeeded"
          /\ status[n] \in {"succeeded", "failed", "upstream_failed"} =>
               status'[n] = status[n] /\ tries'[n] = tries[n]]_vars

C9_Witness ==
  /\ \E n \in Nodes : tries[n] = retries + 1 /\ status[n] = "succeeded"
  /\ status["end"] = "succeeded"

\* every node of the graph run is in a final state
AllFinal == \A n \in Nodes : status[n] \in {"succeeded", "failed", "upstream_failed"}

(* C10: a node with a failed or upstream_failed dependency is never run and *)
(* ends upstream_failed; the graph run comes to rest only with every node   *)
(* final, and then, after a failed extraction node, verify_data_quality,    *)
(* transform_dbt and end are all upstream_failed.                           *)
C10_FailurePropagates ==
  /\ \A n \in Nodes :
       (\E u \in Upstream(n) : status[u] \in {"failed", "upstream_failed"}) =>
         status[n] \in {"pending", "upstream_failed"} /\ tries[n] = 0
  /\ ~ENABLED Next => AllFinal
  /\ (AllFinal /\ \E e \in ExtractNodes : status[e] = "failed") =>
       \A n \in {"verify_data_quality", "transform_dbt", "end"} :
         status[n] = "upstream_failed" /\ tries[n] = 0

C10_Witness ==
  /\ status["extract_yahoo_prices"] = "failed"
  /\ status["extract_yahoo_company_info"] = "succeeded"
  /\ \A n \in {"verify_data_quality", "transform_dbt", "end"} :
       status[n] = "upstream_failed" /\ tries[n] = 0

\* node n starts an attempt in this step
Starts(n) == tries'[n] = tries[n] + 1

(* C11: verify_data_quality starts only after all three extraction nodes    *)
(* have succeeded, transform_dbt only after verify_data_quality succeeded,  *)
(* and end only after transform_dbt succeeded.                              *)
C11_FanInOrder ==
  [][/\ Starts("verify_data_quality") =>
          /\ status["extract_yahoo_prices"] = "succeeded"
          /\ status["extract_yahoo_company_info"] = "succeeded"
          /\ status["extract_yahoo_benchmark_series"] = "succeeded"
     /\ Starts("transform_dbt") => status["verify_data_quality"] = "succeeded"
     /\ Starts("end") => status["transform_dbt"] = "succeeded"
     /\ \A n \in ExtractNodes : Starts(n) => status["start"] = "succeeded"]_vars

C11_Witness ==
  /\ status["end"] = "succeeded" /\ tries["end"] = 1
  /\ tries["verify_data_quality"] = 1 /\ tries["transform_dbt"] = 2
  /\ \E n \in ExtractNodes : tries[n] = 3

\* the gate has read the monitored collections
GateHasRead == cobra # Unread

\* some monitored collection has zero rows
SomeCollectionEmpty == \E t \in TableNames : BagCardinality(cobra[t]) = 0

\* the newest date of the primary series collection is more than 7 days old
NewestIsStale ==
  \A r \in BagToSet(cobra["STOCK_PRICES_DAILY"]) : Today - r.date > FreshnessDays

(* C12: when a monitored collection has zero rows the gate raises whatever  *)
(* the freshness of the data, without reaching the freshness check (no      *)
(* warning), every attempt of the gate fails, and transform_dbt and end     *)
(* never run in that graph run.                                             *)
C12_EmptyIsFatal ==
  (GateHasRead /\ SomeCollectionEmpty) =>
    /\ pc["verify_data_quality"] = "close" =>
         exc["verify_data_quality"] /\ err["verify_data_quality"] # "None"
    /\ ~warned
    /\ status["verify_data_quality"] # "succeeded"
    /\ \A n \in {"transform_dbt", "end"} :
         tries[n] = 0 /\ status[n] \in {"pending", "upstream_failed"}
    /\ AllFinal =>
         /\ status["verify_data_quality"] = "failed"
         /\ status["transform_dbt"] = "upstream_failed"

C12_Witness ==
  /\ GateHasRead
  /\ BagCardinality(cobra["STOCK_PRICES_DAILY"]) > 0 /\ NewestIsStale
  /\ BagCardinality(cobra["COMPANY_INFO"]) = 0
  /\ status["verify_data_quality"] = "failed"
  /\ status["transform_dbt"] = "upstream_failed" /\ tries["transform_dbt"] = 0

(* C13: when every monitored collection has a row the gate succeeds         *)
(* whatever the age of the newest date: a newest date more than 7 days old  *)
(* only sets the warning, and transform_dbt is not kept from running.       *)
C13_StaleOnlyWarns ==
  (GateHasRead /\ ~SomeCollectionEmpty) =>
    /\ pc["verify_data_quality"] = "close" =>
         ~exc["verify_data_quality"] /\ err["verify_data_quality"] = "None"
    /\ warned <=> NewestIsStale
    /\ pc["verify_data_quality"] = "idle" => status["verify_data_quality"] = "succeeded"
    /\ status["transform_dbt"] # "upstream_failed"
    /\ (status["verify_data_quality"] = "succeeded" /\ status["transform_dbt"] = "pending")
         => ENABLED Schedule("transform_dbt")

C13_Witness ==
  /\ GateHasRead /\ ~SomeCollectionEmpty
  /\ NewestIsStale /\ warned
  /\ status["verify_data_quality"] = "succeeded"
  /\ status["transform_dbt"] = "succeeded"

(* C14: an extraction node whose attempt fails is retried at most 2 times,  *)
(* 3 attempts in all, before it is marked failed; one that succeeds on some *)
(* attempt is marked succeeded and is not attempted again.                  *)
C14_ExtractionRetries ==
  /\ [](\A n \in ExtractNodes :
          /\ tries[n] <= 3
          /\ status[n] = "failed" => tries[n] = 3
          /\ status[n] = "up_for_retry" => tries[n] \in {1, 2})
  /\ [][\A n \in ExtractNodes :
          /\ (status[n] = "running" /\ status'[n] # "running") =>
               \/ status'[n] = "succeeded"
               \/ status'[n] = "up_for_retry" /\ tries[n] < 3
               \/ status'[n] = "failed" /\ tries[n] = 3
          /\ status[n] = "succeeded" =>
               status'[n] = "succeeded" /\ tries'[n] = tries[n]
          /\ status[n] = "failed" =>
               status'[n] = "failed" /\ tries'[n] = tries[n]]_vars

C14_Witness ==
  /\ \E n \in ExtractNodes : status[n] = "failed" /\ tries[n] = 3
  /\ \E n \in ExtractNodes : status[n] = "succeeded" /\ tries[n] = 3
  /\ \E n \in ExtractNodes : status[n] = "succeeded" /\ tries[n] = 1

(* C15: verify_data_quality and transform_dbt are not retried: each is      *)
(* attempted at most once per graph run and is never put up for retry.      *)
C15_GateAndTransformOnce ==
  \A n \in {"verify_data_quality", "transform_dbt"} :
    tries[n] <= 1 /\ status[n] # "up_for_retry"

\* what the code does for C15: the gate and the transform are retried like
\* every other task, failed only after their third attempt
C15_GateAndTransformRetried ==
  \A n \in {"verify_data_quality", "transform_dbt"} :
    /\ tries[n] <= retries + 1
    /\ status[n] = "failed" => tries[n] = retries + 1

\* a step of the callable of extraction node m
BranchStep(m) ==
  Extract(m) \/ LoadToRaw(m) \/ WritePandas(m) \/ LogIngestRun(m)
    \/ UpdateWatermark(m) \/ XcomPush(m) \/ Close(m)

\* every write_pandas call of branch m that reported success was followed by
\* the ledger call for its completed record and, where the callable has a
\* watermark block, by the watermark call; what was stored is in the tables
BranchRecorded(m) ==
  \A c \in whCalls :
    (c.table_name = TableOf(m) /\ c.kind = "success") =>
      /\ \E l \in logCalls :
           /\ l.row.run_id = c.run_id /\ l.row.status = "completed"
           /\ l.row.records_loaded = c.offered
           /\ l.stored => l.row \in BagToSet(ledger)
      /\ HasWatermarkBlock(m) =>
           \E w \in wmCalls :
             /\ w.after.run_id = c.run_id
             /\ w.stored => StoredWatermarks(DatasetOf(m)) # {}

(* C16: a failed extraction branch neither cancels nor alters its siblings: *)
(* a sibling is never marked upstream_failed, can still be started and can  *)
(* still take its next step, its ledger records and watermarks are written, *)
(* and the run rests only with every sibling succeeded or failed; the gate  *)
(* and everything downstream of it never start.                             *)
C16_SiblingsUnaffected ==
  \A e \in ExtractNodes :
    status[e] = "failed" =>
      /\ \A m \in ExtractNodes \ {e} :
           /\ status[m] # "upstream_failed"
           /\ status[m] \in {"pending", "up_for_retry"} => ENABLED Schedule(m)
           /\ status[m] = "running" => ENABLED BranchStep(m)
           /\ status[m] \in {"succeeded", "failed"} => BranchRecorded(m)
           /\ ~ENABLED Next => status[m] \in {"succeeded", "failed"}
      /\ \A n \in {"verify_data_quality", "transform_dbt", "end"} :
           tries[n] = 0 /\ status[n] \in {"pending", "upstream_failed"}

C16_Witness ==
  /\ status["extract_yahoo_company_info"] = "failed"
  /\ status["extract_yahoo_prices"] = "succeeded"
  /\ status["extract_yahoo_benchmark_series"] = "succeeded"
  /\ \E r \in BagToSet(ledger) : r.dataset_name = "stock_prices" /\ r.status = "completed"
  /\ \E r \in BagToSet(ledger) : r.dataset_name = "benchmark_series" /\ r.status = "completed"
  /\ StoredWatermarks("stock_prices") # {} /\ StoredWatermarks("benchmark_series") # {}
  /\ status["verify_data_quality"] = "upstream_failed"

(* C17: every task that creates a loader releases its warehouse session on  *)
(* every exit path: when an attempt of an extraction task or of the gate    *)
(* has ended, by return or by exception, the session it opened is closed.   *)
C17_SessionReleased ==
  /\ [](\A n \in LoaderNodes :
          /\ pc[n] = "idle" => conn[n] # "open"
          /\ status[n] # "running" => conn[n] # "open" /\ pc[n] = "idle")
  /\ [][\A n \in LoaderNodes :
          /\ (status[n] = "running" /\ status'[n] # "running") => conn'[n] # "open"
          /\ (Leaves(n, "close") /\ conn[n] = "open") => conn'[n] = "closed"]_vars

C17_Witness ==
  \E n \in LoaderNodes :
    /\ status[n] = "up_for_retry" /\ pc[n] = "idle"
    /\ conn[n] = "closed"

\* load_to_raw of a non-empty batch raised to the callable of node n
LoadRaised(n) == pc[n] = "close" /\ exc[n] /\ result[n] = NoResult

(* C18: when a load of a non-empty batch raises, for a connectivity failure *)
(* as for a failed or unsuccessful write, and no ledger INSERT failed, the  *)
(* ledger holds a failed Run Record of the dataset with the error text.     *)
C18_LoadErrorsRecorded ==
  \A n \in ExtractNodes :
    (LoadRaised(n) /\ \A l \in logCalls : l.stored) =>
      \E r \in BagToSet(ledger) :
        /\ r.dataset_name = DatasetOf(n)
        /\ r.status = "failed" /\ r.error_message # "None"

\* what the code does for C18: the two write errors are recorded, the
\* connectivity failure raises before the try block and leaves no record
C18_WriteErrorsOnlyRecorded ==
  \A n \in ExtractNodes :
    LoadRaised(n) =>
      IF wp[n].kind \in {"raised", "unsuccessful"}
      THEN \A l \in logCalls :
             (l.row.run_id = run_id[n] /\ l.stored) =>
               /\ l.row \in BagToSet(ledger)
               /\ l.row.status = "failed" /\ l.row.error_message # "None"
      ELSE /\ err[n] = "connect failed" /\ run_id[n] = NoId
           /\ \A l \in logCalls : l.row.run_id # generate_run_id(n)

(* C19: a failing ledger or watermark write is never escalated and never    *)
(* masks the original error: after a failed warehouse write the caller gets *)
(* the warehouse error whether or not the ledger INSERT was stored; after a *)
(* successful one the load returns completed whether or not the INSERT was  *)
(* stored, no exception leaves the watermark call, and the task can fail    *)
(* only by its result push.                                                 *)
C19_MetadataFailuresSwallowed ==
  /\ [](\A n \in ExtractNodes :
          /\ (pc[n] = "close" /\ wp[n].kind = "raised") =>
               exc[n] /\ err[n] = "write_pandas raised"
          /\ (pc[n] = "close" /\ wp[n].kind = "unsuccessful") =>
               exc[n] /\ err[n] = "Load failed: output"
          /\ (pc[n] \in {"wm", "push"} /\ wp[n].kind = "success") =>
               result[n].status = "completed" /\ ~exc[n] /\ err[n] = "None"
          /\ (pc[n] = "close" /\ wp[n].kind = "success" /\ exc[n]) =>
               err[n] = "xcom_push raised")
  /\ [][\A n \in ExtractNodes :
          (Leaves(n, "close") /\ ~exc[n]) => status'[n] = "succeeded"]_vars

C19_Witness ==
  \E n \in ExtractNodes :
    /\ pc[n] = "close" /\ wp[n].kind = "raised"
    /\ err[n] = "write_pandas raised"
    /\ \E l \in logCalls : l.row.run_id = run_id[n] /\ ~l.stored
    /\ RunRows(run_id[n]) = 0

\* the records of the ledger with status st
RecordsWith(st) ==
  LET S == {r \in BagToSet(ledger) : r.status = st}
  IN BagCardinality([r \in S |-> ledger[r]])

\* the graph run is over and the three extraction tasks have succeeded
ScenarioDone == AllFinal /\ \A e \in ExtractNodes : status[e] = "succeeded"

(* C20: end to end with batches of sizes 12, 5 and 0 and empty targets: the *)
(* ledger ends with three records (completed, completed, skipped), the      *)
(* watermark table has exactly two rows, the gate raises and transform_dbt  *)
(* never runs.                                                              *)
C20_EndToEnd ==
  ScenarioDone =>
    /\ BagCardinality(ledger) = 3
    /\ RecordsWith("completed") = 2 /\ RecordsWith("skipped") = 1
    /\ Cardinality(watermarks) = 2
    /\ status["verify_data_quality"] = "failed"
    /\ tries["transform_dbt"] = 0

\* what the code does in the scenario of C20: two completed records of 12 and
\* 5 rows and none for the empty batch, a watermark for each non-empty dataset
\* whose callable has a watermark block, and a gate verdict that follows the
\* COBRA collections alone
C20_WhatTheCodeDoes ==
  ScenarioDone =>
    /\ BagCardinality(ledger) = 2
    /\ RecordsWith("completed") = 2
    /\ {r.records_loaded : r \in BagToSet(ledger)} = {12, 5}
    /\ {w.dataset_name : w \in watermarks} =
         {DatasetOf(n) : n \in {m \in ExtractNodes :
                                  /\ HasWatermarkBlock(m)
                                  /\ BagCardinality(raw[TableOf(m)]) > 0}}
    /\ status["verify_data_quality"] = "failed" <=> SomeCollectionEmpty

\* the rows of table T with date d
DateCount(T, d) ==
  LET S == {r \in BagToSet(T) : r.date = d}
  IN BagCardinality([r \in S |-> T[r]])

\* the rows of table T with date d written by run id
RunDateCount(T, d, id) == CopiesIn(Row(d, id), T)

\* the rows of batch b with date d
Occurrences(d, b) == Cardinality({i \in DOMAIN b : b[i] = d})

\* every date a row can carry
AnyDate == Dates \cup {NoDate}

(* C21: the loader is append-only and does not deduplicate: a successful    *)
(* write leaves every row already in the table in place and adds exactly    *)
(* the rows of the batch, whatever the table held, so that a batch loaded   *)
(* again is in the table once more under the run_id of the new attempt.     *)
C21_AppendOnly ==
  /\ [][\A n \in ExtractNodes :
          (Leaves(n, "write") /\ wp'[n].kind = "success") =>
            /\ \A t \in TableNames \ {TableOf(n)} : raw'[t] = raw[t]
            /\ \A r \in BagToSet(raw[TableOf(n)]) :
                 /\ r.source_run_id # run_id[n]
                 /\ CopiesIn(r, raw'[TableOf(n)]) = CopiesIn(r, raw[TableOf(n)])
            /\ BagCardinality(raw'[TableOf(n)]) =
                 BagCardinality(raw[TableOf(n)]) + Len(df[n])
            /\ \A d \in AnyDate :
                 DateCount(raw'[TableOf(n)], d) =
                   DateCount(raw[TableOf(n)], d) + Occurrences(d, df[n])]_vars
  /\ [](\A n \in ExtractNodes :
          wp[n].kind = "success" =>
            \A d \in AnyDate :
              RunDateCount(raw[TableOf(n)], d, run_id[n]) = Occurrences(d, df[n]))

\* the same batch loaded by two attempts: every row is there twice, and the
\* ledger holds a completed record for each attempt
C21_Witness ==
  \E n \in ExtractNodes :
    /\ wp[n].kind = "success" /\ Len(df[n]) = MaxLen /\ pc[n] = "wm"
    /\ \E id \in {w.run_id : w \in whCalls} :
         /\ id # run_id[n]
         /\ \A d \in AnyDate :
              /\ RunDateCount(raw[TableOf(n)], d, id) = Occurrences(d, df[n])
              /\ DateCount(raw[TableOf(n)], d) = 2 * Occurrences(d, df[n])
         /\ \E r1, r2 \in BagToSet(ledger) :
              /\ r1.run_id = id /\ r2.run_id = run_id[n]
              /\ r1.status = "completed" /\ r2.status = "completed"
              /\ r1.records_loaded = MaxLen /\ r2.records_loaded = MaxLen
    /\ BagCardinality(ledger) = 2

\* the run_ids the load attempts made so far were given
AttemptIds == {w.run_id : w \in whCalls}

(* C22: the Run Ledger is append-only: no step of a load, a watermark       *)
(* update, a gate check or a retry modifies or removes a record; the ledger *)
(* grows by one record at a time, only in the _log_ingest_run step of a     *)
(* load, and holds at most one record for each load attempt.                *)
C22_LedgerAppendOnly ==
  /\ [][/\ \A r \in BagToSet(ledger) : CopiesIn(r, ledger') >= CopiesIn(r, ledger)
        /\ BagCardinality(ledger') <= BagCardinality(ledger) + 1
        /\ ledger' # ledger =>
             \E n \in ExtractNodes :
               /\ Leaves(n, "log")
               /\ CopiesIn(RowToLog(n), ledger') = CopiesIn(RowToLog(n), ledger) + 1]_vars
  /\ [](/\ \A id \in AttemptIds : RunRows(id) <= 1
        /\ \A r \in BagToSet(ledger) : r.run_id \in AttemptIds)

\* a failed attempt and a retry that completed and advanced the watermark:
\* both records of the dataset are in the ledger
C22_Witness ==
  /\ BagCardinality(ledger) = 2
  /\ \E r1, r2 \in BagToSet(ledger) :
       /\ r1.status = "failed" /\ r2.status = "completed"
       /\ r1.dataset_name = r2.dataset_name
       /\ StoredWatermarks(r1.dataset_name) # {}
  /\ \E n \in ExtractNodes : tries[n] = 2 /\ pc[n] = "close"

\* the write_pandas calls that appended every row of their batch to table t
FullLoads(t) == {w \in whCalls : w.table_name = t /\ w.kind = "success"}

\* the completed records of dataset ds
CompletedOf(ds) ==
  LET S == {r \in BagToSet(ledger) : r.dataset_name = ds /\ r.status = "completed"}
  IN BagCardinality([r \in S |-> ledger[r]])

(* C23: within one graph run, retries included, at most one load of a       *)
(* dataset reaches the warehouse: no table receives the batch more than     *)
(* once and no dataset gets more than one completed Run Record.             *)
C23_OneLoadPerDataset ==
  \A n \in ExtractNodes :
    /\ Cardinality(FullLoads(TableOf(n))) <= 1
    /\ CompletedOf(DatasetOf(n)) <= 1

\* what the code guarantees instead: one load for each attempt of the task,
\* so at most retries + 1 of them in a graph run
C23_OneLoadPerAttempt ==
  \A n \in ExtractNodes :
    /\ Cardinality(FullLoads(TableOf(n))) <= tries[n]
    /\ CompletedOf(DatasetOf(n)) <= tries[n]
    /\ tries[n] <= retries + 1

\* an update_watermark call for dataset ds was stored
EverAdvanced(ds) == \E w \in wmCalls : w.dataset_name = ds /\ w.stored

\* node n takes the update_watermark step and its MERGE is stored
StoredAdvance(n) ==
  /\ Leaves(n, "wm")
  /\ \E w \in wmCalls' \ wmCalls : w.stored

\* the step is a stored update_watermark for dataset ds
AdvanceOf(ds) == \E n \in ExtractNodes : DatasetOf(n) = ds /\ StoredAdvance(n)

(* C24: the watermark round trip: get_watermark returns the value of the    *)
(* latest update_watermark stored for the dataset and None exactly when     *)
(* none was stored, on every loader instance, one that has not opened a     *)
(* session included.                                                        *)
C24_RoundTrip ==
  /\ [](\A m \in LoaderNodes, ds \in Datasets :
          get_watermark(conn[m], watermarks, ds) = None <=> ~EverAdvanced(ds))
  /\ [][\A m \in LoaderNodes, ds \in Datasets :
          /\ \A n \in ExtractNodes :
               (DatasetOf(n) = ds /\ StoredAdvance(n)) =>
                 get_watermark(conn'[m], watermarks', ds) = WatermarkValue(df[n])
          /\ (~AdvanceOf(ds) /\ conn'[m] = conn[m]) =>
               get_watermark(conn'[m], watermarks', ds) =
                 get_watermark(conn[m], watermarks, ds)]_vars

\* what of C24 the code does: the round trip on a loader whose session is open
C24_OpenLoaders ==
  [][\A m \in LoaderNodes, ds \in Datasets :
       (conn[m] = "open" /\ conn'[m] = "open") =>
         /\ get_watermark(conn[m], watermarks, ds) = None <=> ~EverAdvanced(ds)
         /\ \A n \in ExtractNodes :
              (DatasetOf(n) = ds /\ StoredAdvance(n)) =>
                get_watermark(conn'[m], watermarks', ds) = WatermarkValue(df[n])
         /\ ~AdvanceOf(ds) =>
              get_watermark(conn'[m], watermarks', ds) =
                get_watermark(conn[m], watermarks, ds)]_vars

(* C25: the watermark store holds at most one row for a dataset, and under  *)
(* every interleaving of the extraction branches a step changes the row of  *)
(* a dataset only when it is the update_watermark step of that dataset's    *)
(* task: an advance for one dataset leaves the rows of the others as they   *)
(* were.                                                                    *)
C25_OneRowPerDataset ==
  /\ [](\A w1, w2 \in watermarks : w1.dataset_name = w2.dataset_name => w1 = w2)
  /\ [][\A ds \in Datasets :
          StoredWatermarks(ds)' # StoredWatermarks(ds) =>
            \E n \in ExtractNodes :
              /\ DatasetOf(n) = ds /\ StoredAdvance(n)
              /\ StoredWatermarks(ds)' = {WatermarkValue(df[n])}]_vars

\* two datasets advanced to different values by concurrent branches
C25_Witness ==
  /\ StoredWatermarks("stock_prices") = {Str(1)}
  /\ StoredWatermarks("benchmark_series") = {Str(MaxDate)}
  /\ pc["extract_yahoo_prices"] = "push"
  /\ pc["extract_yahoo_benchmark_series"] = "push"

(* C26: a loader holds at most one warehouse session: it has established    *)
(* none until its first operation that needs one (an extraction with an     *)
(* empty batch ends without any), the calls that follow reuse the open      *)
(* session, and a session is established only by a loader that holds no     *)
(* open one.                                                                *)
C26_OneSession ==
  /\ [](\A n \in LoaderNodes :
          /\ sessions[n] <= 1
          /\ sessions[n] = 0 <=> conn[n] = "none"
          /\ (n \in ExtractNodes /\ pc[n] \in {"load", "wm", "push", "close"}
                /\ IsEmpty(df[n])) => sessions[n] = 0)
  /\ [][\A n \in LoaderNodes :
          sessions'[n] > sessions[n] =>
            /\ conn[n] # "open" /\ conn'[n] = "open"
            /\ Leaves(n, "load") \/ Leaves(n, "gate")]_vars

\* the gate has made its four queries on one session
C26_Witness ==
  /\ pc["verify_data_quality"] = "close"
  /\ cobra # Unread
  /\ QueriesMade = Len(Checks) + 1
  /\ conn["verify_data_quality"] = "open"
  /\ sessions["verify_data_quality"] = 1

\* the rows of table T written by run id
RowsWritten(T, id) ==
  LET S == {r \in BagToSet(T) : r.source_run_id = id}
  IN BagCardinality([r \in S |-> T[r]])

(* C27: a load of a non-empty batch generates one run id that no earlier    *)
(* load had, every row it writes carries that id as source_run_id, the Run  *)
(* Record it logs has the same id as run_id, and the batch of the caller    *)
(* is left as it was given.                                                 *)
C27_OneRunId ==
  /\ [](/\ \A t \in TableNames : \A r \in BagToSet(raw[t]) :
             \E w \in whCalls : w.run_id = r.source_run_id /\ w.table_name = t
        /\ \A w \in whCalls : RowsWritten(raw[w.table_name], w.run_id) = w.num_rows
        /\ \A l \in logCalls :
             \E w \in whCalls :
               w.run_id = l.row.run_id /\ w.table_name = l.row.table_name
        /\ \A r \in BagToSet(ledger) :
             r.status = "completed" =>
               RowsWritten(raw[r.table_name], r.run_id) = r.records_loaded)
  /\ [][\A n \in ExtractNodes :
          /\ (Leaves(n, "load") /\ ~IsEmpty(df[n]) /\ ~exc'[n]) =>
               /\ run_id'[n] # NoId /\ run_id'[n] \notin AttemptIds
               /\ \A m \in ExtractNodes \ {n} : run_id'[n] # run_id[m]
          /\ Leaves(n, "write") =>
               /\ run_id'[n] = run_id[n]
               /\ \A w \in whCalls' \ whCalls : w.run_id = run_id[n]
               /\ \A r \in BagToSet(raw'[TableOf(n)]) :
                    CopiesIn(r, raw'[TableOf(n)]) > CopiesIn(r, raw[TableOf(n)]) =>
                      r.source_run_id = run_id[n]
          /\ Leaves(n, "log") =>
               \A l \in logCalls' \ logCalls : l.row.run_id = run_id[n]
          /\ pc[n] \in {"load", "write", "log", "wm", "push"} => df'[n] = df[n]]_vars

\* a load of MaxLen rows has returned completed: its rows and its record
\* carry its run id
C27_Witness ==
  \E n \in ExtractNodes :
    /\ pc[n] = "wm" /\ result[n].status = "completed" /\ Len(df[n]) = MaxLen
    /\ result[n].run_id = run_id[n]
    /\ RowsWritten(raw[TableOf(n)], run_id[n]) = MaxLen
    /\ \E r \in BagToSet(ledger) : r.run_id = run_id[n] /\ r.records_loaded = MaxLen
    /\ BagCardinality(raw[TableOf(n)]) > MaxLen

\* the states a task instance does not leave
Terminal == {"succeeded", "failed", "upstream_failed"}

(* C28: every graph run terminates: under fair scheduling every node        *)
(* eventually is succeeded, failed or upstream_failed; a node in one of     *)
(* these states stays in it; and end is succeeded only if every other node  *)
(* is.                                                                      *)
C28_Terminates ==
  /\ <>AllFinal
  /\ [][\A n \in Nodes : status[n] \in Terminal => status'[n] = status[n]]_vars
  /\ [](status["end"] = "succeeded" => \A n \in Nodes : status[n] = "succeeded")

\* a graph run that came to rest after an extraction task used all its
\* attempts: end is upstream_failed
C28_Witness ==
  /\ AllFinal
  /\ \E n \in ExtractNodes : status[n] = "failed" /\ tries[n] = retries + 1
  /\ \E n \in ExtractNodes : status[n] = "succeeded" /\ tries[n] > 1
  /\ status["end"] = "upstream_failed"

\* the texts load_to_raw hands to _log_ingest_run as error_message
ErrorTexts == {"Load failed: output", "write_pandas raised"}

C30_NoCompanyWatermark ==
  /\ \A w \in watermarks : w.dataset_name \in {"stock_prices", "benchmark_series"}
  /\ \A w \in wmCalls : w.dataset_name \in {"stock_prices", "benchmark_series"}
  /\ StoredWatermarks(DatasetOf("extract_yahoo_company_info")) = {}

\* the three extraction tasks have loaded their batches and succeeded: there
\* is a completed record for company_info and a watermark for the two others
C30_Witness ==
  /\ \A n \in ExtractNodes : status[n] = "succeeded"
  /\ CompletedOf(DatasetOf("extract_yahoo_company_info")) = 1
  /\ {w.dataset_name : w \in watermarks} = {"stock_prices", "benchmark_series"}

\* main() calls job n in this step
JobStarts(n) == tries'[n] > tries[n]

\* job n has not been called
NotStarted(n) == tries[n] = 0 /\ status[n] = "pending" /\ pc[n] = "idle"

\* job n returns in the step that calls it: its extraction was empty
ReturnsEmpty(n) == JobStarts(n) /\ status'[n] = "succeeded"

(* C31: the standalone runner calls its jobs in the order prices, company   *)
(* info, benchmarks, each after the one before it returned; the first job   *)
(* that raises ends the run: main() re-raises, nothing more happens and the *)
(* jobs after it are never called; a job whose extraction is empty returns  *)
(* without a loader, a warehouse write, a ledger row or a watermark update, *)
(* and main() goes on to the next job.                                      *)
C31_RunnerOrder ==
  /\ [][/\ JobStarts("extract_yahoo_prices") =>
             /\ NotStarted("extract_yahoo_prices")
             /\ NotStarted("extract_yahoo_company_info")
             /\ NotStarted("extract_yahoo_benchmark_series")
        /\ JobStarts("extract_yahoo_company_info") =>
             /\ status["extract_yahoo_prices"] = "succeeded"
             /\ NotStarted("extract_yahoo_company_info")
             /\ NotStarted("extract_yahoo_benchmark_series")
        /\ JobStarts("extract_yahoo_benchmark_series") =>
             /\ status["extract_yahoo_prices"] = "succeeded"
             /\ status["extract_yahoo_company_info"] = "succeeded"
             /\ NotStarted("extract_yahoo_benchmark_series")
        /\ \A n \in ExtractNodes :
             /\ tries'[n] <= 1
             /\ status[n] \in {"succeeded", "failed"} => status'[n] = status[n]
             /\ ReturnsEmpty(n) =>
                  /\ storeVars' = storeVars
                  /\ conn'[n] = "none" /\ sessions'[n] = 0
                  /\ main' = IF n = "extract_yahoo_prices"
                                THEN "extract_yahoo_company_info"
                              ELSE IF n = "extract_yahoo_company_info"
                                THEN "extract_yahoo_benchmark_series"
                              ELSE "completed"
        /\ main = "raised" => vars' = vars]_vars
  /\ [](/\ main = "raised" <=> \E n \in ExtractNodes : status[n] = "failed"
        /\ main = "raised" =>
             \E n \in ExtractNodes :
               /\ status[n] = "failed" /\ err[n] # "None"
               /\ \A m \in ExtractNodes \ {n} :
                    status[m] = "succeeded" \/ NotStarted(m)
        /\ main = "completed" <=> \A n \in ExtractNodes : status[n] = "succeeded"
        /\ (main \in ExtractNodes /\ pc[main] = "idle") => ENABLED RunnerExtract(main))

\* a run in which the prices extraction was empty, the company job loaded
\* its batch and the benchmark job raised
C31_Witness ==
  /\ main = "raised"
  /\ status["extract_yahoo_prices"] = "succeeded"
  /\ ~\E w \in whCalls : w.table_name = TableOf("extract_yahoo_prices")
  /\ StoredWatermarks("stock_prices") = {}
  /\ CompletedOf("company_info") = 1
  /\ status["extract_yahoo_benchmark_series"] = "failed"
  /\ tries["extract_yahoo_benchmark_series"] = 1
====
